---------------------------- MODULE Spec2Model ----------------------------
(***************************************************************************)
(* The booking conversation of badminton_manager_bot.                      *)
(*                                                                         *)
(* Two programs are modelled: the full variant (bot_handlers.py, with      *)
(* image extraction and transcript cleanup) and the simpler variant        *)
(* (main.py).  A behaviour runs one of them (variant).  A step is one      *)
(* update delivered to the ConversationHandler: it is dispatched on the    *)
(* state stored for the conversation key (chat, user) and the matching     *)
(* handler runs to completion.  context.user_data is the dict the          *)
(* framework keeps per user; conversation states are kept per (chat, user).*)
(***************************************************************************)
EXTENDS Integers, Sequences, FiniteSets, TLC

\* ------------------------------------------------------------------ bounds
\* Messages with an id the code reads.  A behaviour either follows one
\* conversation to its end (MaxMsgId messages), or runs three conversations
\* side by side (MaxWideMsgId messages in the first, MaxSideMsgId in each of
\* the other two).
MaxMsgId == 11
MaxWideMsgId == 4
MaxSideMsgId == 2
\* photo messages each chat holds from before the bot's conversations
MaxPosted == 1

\* ------------------------------------------------------------ conversations
Chats == {"c1", "c2"}
Users == {"u1", "u2"}
\* conversation keys (chat, user): u1 talks to the bot in two chats, and
\* chat c1 is a group where u2 talks to it too
Keys == {<<"c1", "u1">>, <<"c2", "u1">>, <<"c1", "u2">>}
ChatOf(k) == k[1]
UserOf(k) == k[2]
MainKey == <<"c1", "u1">>
Deep == [k \in Keys |-> IF k = MainKey THEN MaxMsgId ELSE 0]
Wide == [k \in Keys |-> IF k = MainKey THEN MaxWideMsgId ELSE MaxSideMsgId]
NoIds == [k \in Keys |-> 0]
\* Message ids are opaque to the code (stored, passed to delete_message, never
\* compared or computed with): all that matters is that no two messages share
\* one.  The n-th message of conversation k whose id a handler reads gets
\* IdBase(k) + n, the n-th photo chat c held beforehand PostedBase(c) + n.
IdBase(k) ==
    CASE k = <<"c1", "u1">> -> 100 [] k = <<"c2", "u1">> -> 200
      [] k = <<"c1", "u2">> -> 300
PostedBase(c) == IF c = "c1" THEN 10 ELSE 20
PostedIds(c) == {PostedBase(c) + n : n \in 1..MaxPosted}

END == "END"
AWAIT_MODE == "AWAIT_MODE"
AWAIT_IMAGE == "AWAIT_IMAGE"
AWAIT_DATE == "AWAIT_DATE"
AWAIT_TIME == "AWAIT_TIME"
AWAIT_LOCATION == "AWAIT_LOCATION"
AWAIT_BOOKER_NAME == "AWAIT_BOOKER_NAME"
CONFIRM_DETAILS == "CONFIRM_DETAILS"
FullStates ==
    {AWAIT_MODE, AWAIT_IMAGE, AWAIT_DATE, AWAIT_TIME, AWAIT_LOCATION,
     AWAIT_BOOKER_NAME, CONFIRM_DETAILS}
MainStates == {AWAIT_DATE, AWAIT_TIME, AWAIT_LOCATION, CONFIRM_DETAILS}

\* --------------------------------------------------------------------- text
\* A text is a sequence of characters; None is Python's None.
None == <<"None">>
Digits == {"0", "1", "2", "3", "4", "5", "6", "7", "8", "9"}
DigitVal(c) ==
    CASE c = "0" -> 0 [] c = "1" -> 1 [] c = "2" -> 2 [] c = "3" -> 3
      [] c = "4" -> 4 [] c = "5" -> 5 [] c = "6" -> 6 [] c = "7" -> 7
      [] c = "8" -> 8 [] c = "9" -> 9
IsDigits(s) == \A i \in 1..Len(s) : s[i] \in Digits
Num(s) == IF Len(s) = 1 THEN DigitVal(s[1]) ELSE 10 * DigitVal(s[1]) + DigitVal(s[2])
Sub(s, a, b) == SubSeq(s, a, b)

IsLeap(y) == (y % 4 = 0 /\ y % 100 # 0) \/ y % 400 = 0
DaysIn(y, m) ==
    IF m = 2 THEN (IF IsLeap(y) THEN 29 ELSE 28)
    ELSE IF m \in {4, 6, 9, 11} THEN 30 ELSE 31
Year(s) == 1000 * DigitVal(s[1]) + 100 * DigitVal(s[2]) + 10 * DigitVal(s[3]) + DigitVal(s[4])

\* datetime.strptime's directive %m: 1[0-2]|0[1-9]|[1-9]
MatchMonth(s) ==
    /\ Len(s) \in {1, 2} /\ IsDigits(s)
    /\ Num(s) \in 1..12
\* datetime.strptime's directive %d: 3[0-1]|[1-2]\d|0[1-9]|[1-9]| [1-9]
MatchDay(s) ==
    \/ Len(s) \in {1, 2} /\ IsDigits(s) /\ Num(s) \in 1..31
    \/ Len(s) = 2 /\ s[1] = " " /\ s[2] \in Digits \ {"0"}
DayNum(s) == IF s[1] = " " THEN DigitVal(s[2]) ELSE Num(s)

\* datetime.strptime(s, '%Y-%m-%d') returns (no ValueError): the pattern
\* \d\d\d\d-%m-%d consumes the whole string and the date exists.
StrptimeYmd(s) ==
    /\ s # None
    /\ \E lm \in {1, 2}, ld \in {1, 2} :
        /\ Len(s) = 4 + 1 + lm + 1 + ld
        /\ IsDigits(Sub(s, 1, 4))
        /\ s[5] = "-"
        /\ MatchMonth(Sub(s, 6, 5 + lm))
        /\ s[6 + lm] = "-"
        /\ MatchDay(Sub(s, 7 + lm, 6 + lm + ld))
        /\ Year(s) >= 1
        /\ DayNum(Sub(s, 7 + lm, 6 + lm + ld)) <= DaysIn(Year(s), Num(Sub(s, 6, 5 + lm)))

\* ([01]\d|2[0-3]):([0-5]\d)
MatchHHMM(s) ==
    /\ Len(s) = 5
    /\ IsDigits(Sub(s, 1, 2)) /\ Num(Sub(s, 1, 2)) \in 0..23
    /\ s[3] = ":"
    /\ IsDigits(Sub(s, 4, 5)) /\ Num(Sub(s, 4, 5)) \in 0..59
\* time_pattern.match(s) with ^([01]\d|2[0-3]):([0-5]\d)-([01]\d|2[0-3]):([0-5]\d)$
\* ($ also matches before one trailing newline)
TimePatternMatch(s) ==
    /\ s # None
    /\ \/ Len(s) = 11
       \/ Len(s) = 12 /\ s[12] = "\n"
    /\ MatchHHMM(Sub(s, 1, 5))
    /\ s[6] = "-"
    /\ MatchHHMM(Sub(s, 7, 11))

DateText == <<"2", "0", "2", "5", "-", "0", "8", "-", "2", "0">>
TimeText == <<"1", "9", ":", "0", "0", "-", "2", "1", ":", "0", "0">>
LocationText == <<"C", "o", "u", "r", "t", " ", "3">>
\* the texts a user types in the state machine's behaviours
Texts == {DateText, TimeText}

\* ------------------------------------------------------------- Python dicts
\* A dict is a function from the keys it holds.
EmptyDict == [x \in {} |-> None]
Has(d, key) == key \in DOMAIN d
Put(d, key, v) == [x \in DOMAIN d \cup {key} |-> IF x = key THEN v ELSE d[x]]
\* d.get(key): None when the key is missing
Get(d, key) == IF Has(d, key) THEN d[key] ELSE None
\* `not d` for a dict
Falsy(d) == DOMAIN d = {}

\* --------------------------------------------------------------- the state
VARIABLES
    variant,    \* the program running: "full" (bot_handlers.py) or "main" (main.py)
    conv,       \* ConversationHandler's state per conversation key (END: no entry)
    user_data,  \* context.user_data, one dict per user
    nextId,     \* per conversation, the number of its next message
    photos,     \* per chat, the ids of the photo messages in it
    anchor,     \* per conversation, the ids of its trigger messages (history)
    lastOp,     \* what the last update a handler ran for did (history)
    budget,     \* per conversation, the messages the behaviour may give it
    typed,      \* update.message.text of the text message at hand (None: none)
    undeletable, \* the ids for which bot.delete_message raises
    tasks,      \* the process_update coroutines under way, when updates are
                \* processed concurrently (<<>>: updates are processed serially)
    createCalls \* per conversation, the calls of create_calendar_event those
                \* coroutines have made (history)
vars ==
    <<variant, conv, user_data, nextId, photos, anchor, lastOp, budget, typed,
      undeletable, createCalls, tasks>>

\* ---------------------------------------------------------------- dispatch
\* the kinds of update: commands, a text that is no command, a photo message,
\* a press of an inline button (its callback data)
Kinds ==
    {"cmd_create", "cmd_cancel", "text", "photo",
     "cb_upload_image", "cb_manual_input", "cb_confirm", "cb_cancel"}
MessageKinds == {"cmd_create", "cmd_cancel", "text", "photo"}

H(kind, callback) == [kind |-> kind, callback |-> callback]
\* conv_handler of bot_handlers.py
entry_points == <<H("cmd_create", "create_command")>>
states(s) ==
    CASE s = AWAIT_MODE ->
            <<H("cb_upload_image", "start_image_upload"),
              H("cb_manual_input", "start_manual_input")>>
      [] s = AWAIT_IMAGE ->
            <<H("photo", "process_photo"), H("cmd_cancel", "cancel_event")>>
      [] s = AWAIT_DATE ->
            <<H("text", "get_date"), H("cmd_cancel", "cancel_event")>>
      [] s = AWAIT_TIME ->
            <<H("text", "get_time"), H("cmd_cancel", "cancel_event")>>
      [] s = AWAIT_LOCATION ->
            <<H("text", "get_location"), H("cmd_cancel", "cancel_event")>>
      [] s = AWAIT_BOOKER_NAME ->
            <<H("text", "get_booker_name"), H("cmd_cancel", "cancel_event")>>
      [] s = CONFIRM_DETAILS ->
            <<H("cb_confirm", "confirm_event"), H("cb_cancel", "cancel_event")>>
      [] OTHER -> <<>>
fallbacks == <<H("cmd_cancel", "cancel_event")>>
\* ConversationHandler(...) is built without allow_reentry: the default, False
allow_reentry == FALSE

\* conv_handler of main.py
main_states(s) ==
    CASE s = AWAIT_DATE ->
            <<H("text", "get_date"), H("cmd_cancel", "cancel_event")>>
      [] s = AWAIT_TIME ->
            <<H("text", "get_time"), H("cmd_cancel", "cancel_event")>>
      [] s = AWAIT_LOCATION ->
            <<H("text", "get_location"), H("cmd_cancel", "cancel_event")>>
      [] s = CONFIRM_DETAILS ->
            <<H("cb_confirm", "confirm_event"), H("cb_cancel", "cancel_event")>>
      [] OTHER -> <<>>

\* the first handler of the list that accepts the update, "none" without one
FirstMatch(handlers, kind) ==
    IF \E i \in 1..Len(handlers) : handlers[i].kind = kind
    THEN handlers[CHOOSE i \in 1..Len(handlers) :
                    /\ handlers[i].kind = kind
                    /\ \A j \in 1..(i - 1) : handlers[j].kind # kind].callback
    ELSE "none"

\* ConversationHandler.check_update: the entry points when the conversation
\* has no state (or on re-entry), else the handlers of the state, else the
\* fallbacks
Dispatch(v, s, kind) ==
    LET viaEntry == IF s = END \/ allow_reentry
                    THEN FirstMatch(entry_points, kind) ELSE "none"
        table == IF v = "full" THEN states(s) ELSE main_states(s)
    IN  IF viaEntry # "none" THEN viaEntry
        ELSE IF s = END THEN "none"
        ELSE IF FirstMatch(table, kind) # "none" THEN FirstMatch(table, kind)
        ELSE FirstMatch(fallbacks, kind)

\* ------------------------------------------------------- what a handler did
\* ud: context.user_data afterwards; state: the state returned; used: the
\* ids taken by the bot's messages whose id the handler reads;
\* notice: the last message sent; delReq: the ids delete_message was called
\* with, in order; mtdAt: messages_to_delete when a handler that ends the
\* conversation finished its work (before clear()); cal: the outcome of the
\* calendar call ("none": not called); result: "raise" when an exception left
\* the handler
\* the handler; size: the file size of the photo it looked at; extract: what
\* the extraction adapter did (NotCalled: it was not called); sent: the file
\* size of the photo the update's own message holds (0: it holds none);
\* looked: whose photo file was fetched ("own": that of the update's message,
\* "other": that of another message, "none": no file was fetched);
\* calls: the calls made to the bot API that delete or send, in order
NotCalled == [kind |-> "none", value |-> EmptyDict]
\* Every handler that cleans up awaits delete_messages first and sends its one
\* message afterwards; the others only send.
OutboundCalls(delReq, notice) ==
    [i \in 1..Len(delReq) |-> [call |-> "delete", what |-> "none", id |-> delReq[i]]]
    \o (IF notice = "none" THEN <<>> ELSE <<[call |-> "send", what |-> notice, id |-> 0]>>)
Did(ud, state, used, notice, delReq, mtdAt, cal) ==
    [ud |-> ud, state |-> state, used |-> used, notice |-> notice,
     delReq |-> delReq, mtdAt |-> mtdAt, cal |-> cal, result |-> "ok",
     size |-> 0, extract |-> NotCalled, sent |-> 0, looked |-> "none",
     calls |-> OutboundCalls(delReq, notice)]
\* an `if not ...: return ConversationHandler.END` guard
Guarded(ud) == Did(ud, END, 0, "none", <<>>, <<>>, "none")
\* an exception leaves the handler: the framework keeps the state
Raised(ud, state) ==
    [ud |-> ud, state |-> state, used |-> 0, notice |-> "none",
     delReq |-> <<>>, mtdAt |-> <<>>, cal |-> "none", result |-> "raise",
     size |-> 0, extract |-> NotCalled, sent |-> 0, looked |-> "none",
     calls |-> <<>>]

Mtd(ud) == ud["messages_to_delete"]
\* context.user_data['messages_to_delete'].append(id)
Record(ud, id) == Put(ud, "messages_to_delete", Append(Mtd(ud), id))

\* The loop of delete_messages: context.bot.delete_message is called for each
\* msg_id in order; when the call raises (msg_id is in failing) the exception
\* is caught and logged, and the loop goes on.  The ids the call was made for.
RECURSIVE DeleteLoop(_, _)
DeleteLoop_StopsAtFailure(message_ids, failing) ==
    IF message_ids = <<>> THEN <<>>
    ELSE IF Head(message_ids) \in failing THEN <<Head(message_ids)>>
    ELSE <<Head(message_ids)>> \o DeleteLoop(Tail(message_ids), failing)
DeleteLoop(message_ids, failing) ==
    IF message_ids = <<>> THEN <<>>
    ELSE LET msg_id == Head(message_ids)
         IN  IF msg_id \in failing
             THEN <<msg_id>> \o DeleteLoop(Tail(message_ids), failing)
             ELSE <<msg_id>> \o DeleteLoop(Tail(message_ids), failing)

\* delete_messages(context, chat_id, message_ids): it returns normally
delete_messages(message_ids) == DeleteLoop(message_ids, undeletable)

\* ------------------------------------------------------------- the adapters
\* extract_booking_info returns what json.loads made of the answer, {} on a
\* failure it catches, or lets an exception that is no aiohttp.ClientError out
ExtractedScenario ==
    [date |-> DateText, time |-> TimeText, location |-> LocationText,
     booker_name |-> None]
ExtractedAllNull ==
    [date |-> None, time |-> None, location |-> None, booker_name |-> None]
ExtractResults ==
    {[raises |-> TRUE, value |-> EmptyDict],
     [raises |-> FALSE, value |-> EmptyDict],
     [raises |-> FALSE, value |-> ExtractedScenario],
     [raises |-> FALSE, value |-> ExtractedAllNull]}

\* the parameters of create_calendar_event
CalendarParams == {"date", "time_range", "location", "summary"}
CalendarRequired == {"date", "time_range", "location"}
\* the keyword arguments of the two calls
ConfirmKwargs == {"date", "time_range", "location", "description"}
MainConfirmKwargs == {"date", "time_range", "location"}
\* what the calendar service does with an insert: a link, or an HttpError
ServiceOutcomes == {"link", "null"}

\* datetime.strptime(t, '%H:%M') returns: %H is 2[0-3]|[0-1]\d|\d and %M is
\* [0-5]\d|\d
StrptimeHM(t) ==
    \E lh \in {1, 2}, lmi \in {1, 2} :
        /\ Len(t) = lh + 1 + lmi
        /\ IsDigits(Sub(t, 1, lh)) /\ Num(Sub(t, 1, lh)) \in 0..23
        /\ t[lh + 1] = ":"
        /\ IsDigits(Sub(t, lh + 2, lh + 1 + lmi))
        /\ Num(Sub(t, lh + 2, lh + 1 + lmi)) \in 0..59
\* start, end = time_range.split('-') unpacks and both parse
TimeRangeParses(t) ==
    /\ t # None
    /\ Cardinality({i \in 1..Len(t) : t[i] = "-"}) = 1
    /\ LET i == CHOOSE j \in 1..Len(t) : t[j] = "-"
       IN  StrptimeHM(Sub(t, 1, i - 1)) /\ StrptimeHM(Sub(t, i + 1, Len(t)))

\* create_calendar_event called with the keyword arguments kwargs: "raise"
\* (TypeError) when they do not bind to the parameters; otherwise every
\* exception of the body is caught and None returned, and the link comes back
\* when the service made the event
create_calendar_event(kwargs, date, time_range, svc) ==
    IF ~(kwargs \subseteq CalendarParams /\ CalendarRequired \subseteq kwargs)
    THEN "raise"
    ELSE IF StrptimeYmd(date) /\ TimeRangeParses(time_range) THEN svc
    ELSE "null"

\* ------------------------------------------- the handlers of bot_handlers.py
\* booking_data.get(key, default): the default only when the key is missing
GetOr(d, key, default) == IF Has(d, key) THEN d[key] ELSE default
\* how an f-string shows a value: str(None) is 'None'
Str(v) == IF v = None THEN <<"N", "o", "n", "e">> ELSE v
NotSpecified == <<"N", "o", "t", " ", "s", "p", "e", "c", "i", "f", "i", "e", "d">>
\* format_booking_details(booking_data): what each line of the summary shows
format_booking_details(booking_data) ==
    [date |-> Str(GetOr(booking_data, "date", NotSpecified)),
     time |-> Str(GetOr(booking_data, "time", NotSpecified)),
     location |-> Str(GetOr(booking_data, "location", NotSpecified)),
     booker_name |-> Str(GetOr(booking_data, "booker_name", NotSpecified))]

MAX_IMAGE_SIZE == 5 * 1024 * 1024
\* a message that replies to nothing; a replied-to message that is no photo
NoReply == 0
NonPhoto == -1

\* process_photo records the photo message only when the update's message
\* replies to nothing
PhotoRecorded_Always(reply) == TRUE
PhotoRecorded(reply) == reply = NoReply

\* telegram_file.file_size > MAX_IMAGE_SIZE
TooLarge(size) == size > MAX_IMAGE_SIZE
\* the result r of a handler that fetched a photo file (own: that of the
\* update's message; its size) and went on to the extraction adapter (extract) or not (NotCalled)
Looked(r, own, size, extract) ==
    [r EXCEPT !.looked = IF own THEN "own" ELSE "other",
              !.size = size, !.extract = extract]
\* what a call of the extraction adapter came to: it raised, or returned a
\* value
Extracted(x) ==
    IF x.raises THEN [kind |-> "raise", value |-> EmptyDict]
    ELSE [kind |-> "returned", value |-> x.value]
\* `if not booking_details`
NoDetails_Never(booking_details) == FALSE
NoDetails(booking_details) == Falsy(booking_details)
\* the result r of a handler run for a message that holds a photo of this size
Sent(r, size) == [r EXCEPT !.sent = size]

\* context.user_data['booking'] = booking_details
SetBooking_Skipped(ud, booking_details) == ud
SetBooking(ud, booking_details) == Put(ud, "booking", booking_details)

\* process_photo(update, context): m is update.message's id, isPhoto whether it
\* holds a photo, reply the message it replies to, size the file size of the
\* photo looked at, x what the extraction adapter does
ProcessPhoto(ud, m, isPhoto, reply, size, x) ==
    IF Falsy(ud) THEN Guarded(ud)
    ELSE IF (reply = NoReply /\ ~isPhoto) \/ reply = NonPhoto
    THEN Did(ud, AWAIT_IMAGE, 0, "none", <<>>, <<>>, "none")
    ELSE
      LET message_with_photo == IF reply # NoReply THEN reply ELSE m
          ud1 == IF PhotoRecorded(reply) THEN Record(ud, message_with_photo) ELSE ud
          b == m + 1
      IN  IF TooLarge(size)
          THEN Looked(Did(Record(ud1, b), AWAIT_IMAGE, 1, "too_large", <<>>, <<>>,
                          "none"), message_with_photo = m, size, NotCalled)
          ELSE IF x.raises
          THEN Looked(Did(Record(ud1, b), AWAIT_IMAGE, 1, "extract_error", <<>>,
                          <<>>, "none"), message_with_photo = m, size, Extracted(x))
          ELSE IF NoDetails(x.value)
          THEN Looked(Did(Record(ud1, b), AWAIT_IMAGE, 1, "extract_failed", <<>>,
                          <<>>, "none"), message_with_photo = m, size, Extracted(x))
          ELSE Looked(Did(Record(SetBooking(ud1, x.value), b), CONFIRM_DETAILS,
                          1, "summary", <<>>, <<>>, "none"),
                      message_with_photo = m, size, Extracted(x))

\* create_command(update, context): m is the command message's id, reply the
\* photo message it quotes (NoReply without one)
CreateCommand(ud, m, reply, size, x) ==
    LET ud1 == Put(Put(ud, "initial_message_id", m), "messages_to_delete", <<>>)
    IN  IF reply # NoReply /\ reply # NonPhoto
        THEN ProcessPhoto(Put(ud1, "quoted_image_id", reply), m, FALSE, reply, size, x)
        ELSE Did(Record(ud1, m + 1), AWAIT_MODE, 1, "menu", <<>>, <<>>, "none")

\* start_manual_input / start_image_upload: b is the id of the new prompt
StartManualInput(ud, b) ==
    IF Falsy(ud) THEN Guarded(ud)
    ELSE Did(Put(ud, "messages_to_delete", <<b>>), AWAIT_DATE, 1, "date_prompt",
             delete_messages(Mtd(ud)), <<>>, "none")
StartImageUpload(ud, b) ==
    IF Falsy(ud) THEN Guarded(ud)
    ELSE Did(Put(ud, "messages_to_delete", <<b>>), AWAIT_IMAGE, 1, "image_prompt",
             delete_messages(Mtd(ud)), <<>>, "none")

\* context.user_data['booking'][field] = text, after
\* `if 'booking' not in context.user_data: context.user_data['booking'] = {}`
StoreField_Dropped(ud, field, text) == ud
StoreField(ud, field, text) ==
    Put(ud, "booking",
        Put(IF Has(ud, "booking") THEN ud["booking"] ELSE EmptyDict, field, text))

\* `if not user_date` (and the like): the message has no text, or an empty one
NoText(text) == text = None \/ text = <<>>

\* get_date(update, context): m is the text message's id
GetDate(ud, m, text) ==
    IF Falsy(ud) THEN Guarded(ud)
    ELSE IF NoText(text) THEN Did(ud, AWAIT_DATE, 0, "none", <<>>, <<>>, "none")
    ELSE IF StrptimeYmd(text)
    THEN Did(Record(StoreField(Record(ud, m), "date", text), m + 1), AWAIT_TIME, 1,
             "time_prompt", <<>>, <<>>, "none")
    ELSE Did(Record(Record(ud, m), m + 1), AWAIT_DATE, 1, "date_invalid",
             <<>>, <<>>, "none")

GetTime(ud, m, text) ==
    IF Falsy(ud) THEN Guarded(ud)
    ELSE IF NoText(text) THEN Did(ud, AWAIT_TIME, 0, "none", <<>>, <<>>, "none")
    ELSE IF TimePatternMatch(text)
    THEN Did(Record(StoreField(Record(ud, m), "time", text), m + 1), AWAIT_LOCATION, 1,
             "location_prompt", <<>>, <<>>, "none")
    ELSE Did(Record(Record(ud, m), m + 1), AWAIT_TIME, 1, "time_invalid",
             <<>>, <<>>, "none")

GetLocation(ud, m, text) ==
    IF Falsy(ud) THEN Guarded(ud)
    ELSE IF NoText(text) THEN Did(ud, AWAIT_LOCATION, 0, "none", <<>>, <<>>, "none")
    ELSE Did(Record(StoreField(Record(ud, m), "location", text), m + 1),
             AWAIT_BOOKER_NAME, 1, "booker_prompt", <<>>, <<>>, "none")

GetBookerName(ud, m, text) ==
    IF Falsy(ud) THEN Guarded(ud)
    ELSE IF NoText(text)
    THEN Did(ud, AWAIT_BOOKER_NAME, 0, "none", <<>>, <<>>, "none")
    ELSE Did(Record(StoreField(Record(ud, m), "booker_name", text), m + 1),
             CONFIRM_DETAILS, 1, "summary", <<>>, <<>>, "none")

\* context.user_data.clear() at the end of confirm_event
ConfirmClear_Skipped(ud) == ud
ConfirmClear(ud) == EmptyDict
\* `return ConversationHandler.END` at the end of confirm_event, whatever the
\* calendar call came to
ConfirmReturn_RetryOnFailure(res) ==
    IF res \in {"null", "raise"} THEN CONFIRM_DETAILS ELSE END
ConfirmReturn(res) == END

\* confirm_event(update, context): svc is what the calendar service would do
ConfirmEvent(ud, svc) ==
    IF Falsy(ud) THEN Guarded(ud)
    ELSE IF ~Has(ud, "booking") \/ Falsy(ud["booking"])
    THEN Did(EmptyDict, END, 0, "nodata", delete_messages(Mtd(ud)), Mtd(ud), "none")
    ELSE
      LET booking == ud["booking"]
          res == create_calendar_event(ConfirmKwargs, Get(booking, "date"),
                                       Get(booking, "time"), svc)
      IN  IF res = "raise"
          THEN Did(ConfirmClear(ud), ConfirmReturn(res), 0, "unexpected_error",
                   <<>>, Mtd(ud), res)
          ELSE Did(ConfirmClear(ud), ConfirmReturn(res), 0,
                   IF res = "link" THEN "success" ELSE "failed",
                   delete_messages(Mtd(ud)), Mtd(ud), res)

\* cancel_event(update, context): the cancel button (isButton), or the /cancel
\* command whose message has id m
CancelEvent(ud, isButton, m) ==
    IF Falsy(ud) THEN Guarded(ud)
    ELSE IF isButton
    THEN Did(EmptyDict, END, 0, "cancelled", delete_messages(Mtd(ud)), Mtd(ud), "none")
    ELSE LET ud1 == Record(IF Has(ud, "messages_to_delete") THEN ud
                           ELSE Put(ud, "messages_to_delete", <<>>), m)
         IN  Did(EmptyDict, END, 0, "cancelled", delete_messages(Mtd(ud1)), Mtd(ud1),
                 "none")

\* ------------------------------------------------- the handlers of main.py
\* main.py reads no message id and keeps no transcript.
MainCreateCommand(ud) ==
    Did(Put(ud, "booking", EmptyDict), AWAIT_DATE, 0, "date_prompt", <<>>, <<>>, "none")

\* context.user_data['booking'][field] = text: KeyError without 'booking'
MainGetDate(ud, text) ==
    IF ~StrptimeYmd(text)
    THEN Did(ud, AWAIT_DATE, 0, "date_invalid", <<>>, <<>>, "none")
    ELSE IF ~Has(ud, "booking") THEN Raised(ud, AWAIT_DATE)
    ELSE Did(StoreField(ud, "date", text), AWAIT_TIME, 0, "time_prompt",
             <<>>, <<>>, "none")

MainGetTime(ud, text) ==
    IF ~TimePatternMatch(text)
    THEN Did(ud, AWAIT_TIME, 0, "time_invalid", <<>>, <<>>, "none")
    ELSE IF ~Has(ud, "booking") THEN Raised(ud, AWAIT_TIME)
    ELSE Did(StoreField(ud, "time", text), AWAIT_LOCATION, 0, "location_prompt",
             <<>>, <<>>, "none")

MainGetLocation(ud, text) ==
    IF ~Has(ud, "booking") THEN Raised(ud, AWAIT_LOCATION)
    ELSE Did(StoreField(ud, "location", text), CONFIRM_DETAILS, 0, "summary",
             <<>>, <<>>, "none")

\* context.user_data.clear() at the end of main.py's confirm_event
MainConfirmClear(ud) == EmptyDict

MainConfirmEvent(ud, svc) ==
    IF ~Has(ud, "booking") \/ Falsy(ud["booking"])
    THEN Did(ud, END, 0, "nodata", <<>>, <<>>, "none")
    ELSE
      LET booking == ud["booking"]
          res == create_calendar_event(MainConfirmKwargs, Get(booking, "date"),
                                       Get(booking, "time"), svc)
      IN  IF res = "raise"
          THEN Did(MainConfirmClear(ud), END, 0, "unexpected_error", <<>>, <<>>, res)
          ELSE Did(MainConfirmClear(ud), END, 0,
                   IF res = "link" THEN "success" ELSE "failed", <<>>, <<>>, res)

\* cancel_event of main.py: query = update.callback_query; await query.answer()
\* (an AttributeError when the update is a command message: no callback query)
MainCancelEvent(ud, s, isButton) ==
    IF ~isButton THEN Raised(ud, s)
    ELSE Did(EmptyDict, END, 0, "cancelled", <<>>, <<>>, "none")

\* ------------------------------------------------------------------- steps
NoOp ==
    [key |-> <<"", "">>, input |-> "none", from |-> END, handler |-> "none",
     result |-> "ok", notice |-> "none", delReq |-> <<>>, mtdAt |-> <<>>,
     cal |-> "none", svc |-> "none", draft |-> EmptyDict, anchors |-> {},
     size |-> 0, extract |-> NotCalled, sent |-> 0, summary |-> EmptyDict,
     looked |-> "none", calls |-> <<>>]

Init ==
    /\ \/ variant = "full" /\ budget \in {Deep, Wide}
       \/ variant = "main" /\ budget = NoIds
    /\ conv = [k \in Keys |-> END]
    /\ user_data = [u \in Users |-> EmptyDict]
    /\ nextId = [k \in Keys |-> 1]
    /\ photos = [c \in Chats |-> PostedIds(c)]
    /\ anchor = [k \in Keys |-> {}]
    /\ lastOp = NoOp
    /\ typed = None
    /\ undeletable = {}
    /\ createCalls = [k \in Keys |-> 0]
    /\ tasks = <<>>

AllAnchors == UNION {anchor[k] : k \in Keys}
Draft(ud) == IF Has(ud, "booking") THEN ud["booking"] ELSE EmptyDict

\* The update of kind `kind` for conversation k was handled by `handler` with
\* the effect r; newAnchors are the trigger messages of a conversation begun.
Apply(k, kind, handler, r, svc, newAnchors) ==
    LET taken == IF variant = "main" THEN 0
                 ELSE r.used + (IF kind \in MessageKinds THEN 1 ELSE 0)
    IN  /\ nextId[k] + taken <= budget[k] + 1
        /\ nextId' = [nextId EXCEPT ![k] = @ + taken]
        /\ conv' = [conv EXCEPT ![k] = r.state]
        /\ user_data' = [user_data EXCEPT ![UserOf(k)] = r.ud]
        /\ anchor' = [anchor EXCEPT ![k] =
                        IF r.state = END THEN {}
                        ELSE IF handler = "create_command" THEN newAnchors
                        ELSE @]
        /\ lastOp' = [key |-> k, input |-> kind, from |-> conv[k],
                      handler |-> handler, result |-> r.result,
                      notice |-> r.notice, delReq |-> r.delReq,
                      mtdAt |-> r.mtdAt, cal |-> r.cal, svc |-> svc,
                      draft |-> IF handler = "confirm_event"
                                THEN Draft(user_data[UserOf(k)]) ELSE EmptyDict,
                      anchors |-> AllAnchors,
                      size |-> r.size, extract |-> r.extract, sent |-> r.sent,
                      summary |-> IF r.notice # "summary" THEN EmptyDict
                                  ELSE IF r.extract.kind = "returned"
                                  THEN format_booking_details(r.extract.value)
                                  ELSE format_booking_details(r.ud["booking"]),
                      looked |-> r.looked, calls |-> r.calls]
        /\ UNCHANGED <<variant, budget, undeletable, createCalls, tasks>>

Handles(k, kind, handler) == Dispatch(variant, conv[k], kind) = handler
UD(k) == user_data[UserOf(k)]
\* the id of the update's message
Msg(k) == IdBase(k) + nextId[k]

\* What a photo looked at turns out to be: its file size (the largest
\* accepted, or the next one) and what the extraction adapter makes of it
\* (not called for the oversized one).
NoExtraction == [raises |-> FALSE, value |-> EmptyDict]
PhotoInputs ==
    {[size |-> MAX_IMAGE_SIZE + 1, x |-> NoExtraction]}
    \cup {[size |-> MAX_IMAGE_SIZE, x |-> x] : x \in ExtractResults}

\* --- bot_handlers.py
create_command(k) ==
    /\ variant = "full"
    /\ Handles(k, "cmd_create", "create_command")
    /\ \/ Apply(k, "cmd_create", "create_command",
                CreateCommand(UD(k), Msg(k), NoReply, MAX_IMAGE_SIZE, NoExtraction),
                "none", {Msg(k)})
       \/ \E reply \in photos[ChatOf(k)], p \in PhotoInputs :
            Apply(k, "cmd_create", "create_command",
                  CreateCommand(UD(k), Msg(k), reply, p.size, p.x),
                  "none", {Msg(k), reply})
    /\ UNCHANGED photos
    /\ typed' = None

start_manual_input(k) ==
    /\ variant = "full"
    /\ Handles(k, "cb_manual_input", "start_manual_input")
    /\ Apply(k, "cb_manual_input", "start_manual_input",
             StartManualInput(UD(k), Msg(k)), "none", {})
    /\ UNCHANGED photos
    /\ typed' = None

start_image_upload(k) ==
    /\ variant = "full"
    /\ Handles(k, "cb_upload_image", "start_image_upload")
    /\ Apply(k, "cb_upload_image", "start_image_upload",
             StartImageUpload(UD(k), Msg(k)), "none", {})
    /\ UNCHANGED photos
    /\ typed' = None

process_photo(k) ==
    /\ variant = "full"
    /\ Handles(k, "photo", "process_photo")
    /\ \/ Apply(k, "photo", "process_photo",
                Sent(ProcessPhoto(UD(k), Msg(k), TRUE, NonPhoto, MAX_IMAGE_SIZE,
                                  NoExtraction), MAX_IMAGE_SIZE), "none", {})
       \/ \E p \in PhotoInputs :
            Apply(k, "photo", "process_photo",
                  Sent(ProcessPhoto(UD(k), Msg(k), TRUE, NoReply, p.size, p.x),
                       p.size), "none", {})
       \/ \E reply \in photos[ChatOf(k)], p \in PhotoInputs :
            Apply(k, "photo", "process_photo",
                  Sent(ProcessPhoto(UD(k), Msg(k), TRUE, reply, p.size, p.x),
                       MAX_IMAGE_SIZE), "none", {})
    /\ photos' = [photos EXCEPT ![ChatOf(k)] = @ \cup {Msg(k)}]
    /\ typed' = None

get_date(k) ==
    /\ variant = "full"
    /\ Handles(k, "text", "get_date")
    /\ \E text \in Texts :
         /\ typed' = text
         /\ Apply(k, "text", "get_date", GetDate(UD(k), Msg(k), text), "none", {})
    /\ UNCHANGED photos

get_time(k) ==
    /\ variant = "full"
    /\ Handles(k, "text", "get_time")
    /\ \E text \in Texts :
         /\ typed' = text
         /\ Apply(k, "text", "get_time", GetTime(UD(k), Msg(k), text), "none", {})
    /\ UNCHANGED photos

get_location(k) ==
    /\ variant = "full"
    /\ Handles(k, "text", "get_location")
    /\ \E text \in Texts :
         /\ typed' = text
         /\ Apply(k, "text", "get_location", GetLocation(UD(k), Msg(k), text), "none", {})
    /\ UNCHANGED photos

get_booker_name(k) ==
    /\ variant = "full"
    /\ Handles(k, "text", "get_booker_name")
    /\ \E text \in Texts :
         /\ typed' = text
         /\ Apply(k, "text", "get_booker_name", GetBookerName(UD(k), Msg(k), text),
               "none", {})
    /\ UNCHANGED photos

confirm_event(k) ==
    /\ variant = "full"
    /\ Handles(k, "cb_confirm", "confirm_event")
    /\ \E svc \in ServiceOutcomes :
         Apply(k, "cb_confirm", "confirm_event", ConfirmEvent(UD(k), svc), svc, {})
    /\ UNCHANGED photos
    /\ typed' = None

cancel_event(k) ==
    /\ variant = "full"
    /\ \/ /\ Handles(k, "cb_cancel", "cancel_event")
          /\ Apply(k, "cb_cancel", "cancel_event", CancelEvent(UD(k), TRUE, Msg(k)),
                   "none", {})
       \/ /\ Handles(k, "cmd_cancel", "cancel_event")
          /\ Apply(k, "cmd_cancel", "cancel_event", CancelEvent(UD(k), FALSE, Msg(k)),
                   "none", {})
    /\ UNCHANGED photos
    /\ typed' = None

\* --- main.py
main_create_command(k) ==
    /\ variant = "main"
    /\ Handles(k, "cmd_create", "create_command")
    /\ Apply(k, "cmd_create", "create_command", MainCreateCommand(UD(k)), "none", {})
    /\ UNCHANGED photos
    /\ typed' = None

main_get_date(k) ==
    /\ variant = "main"
    /\ Handles(k, "text", "get_date")
    /\ \E text \in Texts :
         /\ typed' = text
         /\ Apply(k, "text", "get_date", MainGetDate(UD(k), text), "none", {})
    /\ UNCHANGED photos

main_get_time(k) ==
    /\ variant = "main"
    /\ Handles(k, "text", "get_time")
    /\ \E text \in Texts :
         /\ typed' = text
         /\ Apply(k, "text", "get_time", MainGetTime(UD(k), text), "none", {})
    /\ UNCHANGED photos

main_get_location(k) ==
    /\ variant = "main"
    /\ Handles(k, "text", "get_location")
    /\ \E text \in Texts :
         /\ typed' = text
         /\ Apply(k, "text", "get_location", MainGetLocation(UD(k), text), "none", {})
    /\ UNCHANGED photos

main_confirm_event(k) ==
    /\ variant = "main"
    /\ Handles(k, "cb_confirm", "confirm_event")
    /\ \E svc \in ServiceOutcomes :
         Apply(k, "cb_confirm", "confirm_event", MainConfirmEvent(UD(k), svc), svc, {})
    /\ UNCHANGED photos
    /\ typed' = None

main_cancel_event(k) ==
    /\ variant = "main"
    /\ \/ /\ Handles(k, "cb_cancel", "cancel_event")
          /\ Apply(k, "cb_cancel", "cancel_event",
                   MainCancelEvent(UD(k), conv[k], TRUE), "none", {})
       \/ /\ Handles(k, "cmd_cancel", "cancel_event")
          /\ Apply(k, "cmd_cancel", "cancel_event",
                   MainCancelEvent(UD(k), conv[k], FALSE), "none", {})
    /\ UNCHANGED photos
    /\ typed' = None

\* --- an update no handler of the conversation accepts: check_update returns
\* None, nothing runs and nothing is sent.
Unhandled(k) ==
    /\ {kind \in Kinds : Dispatch(variant, conv[k], kind) = "none"} # {}
    /\ UNCHANGED vars

Next ==
    \E k \in Keys :
        \/ create_command(k)
        \/ start_manual_input(k)
        \/ start_image_upload(k)
        \/ process_photo(k)
        \/ get_date(k)
        \/ get_time(k)
        \/ get_location(k)
        \/ get_booker_name(k)
        \/ confirm_event(k)
        \/ cancel_event(k)
        \/ main_create_command(k)
        \/ main_get_date(k)
        \/ main_get_time(k)
        \/ main_get_location(k)
        \/ main_confirm_event(k)
        \/ main_cancel_event(k)
        \/ Unhandled(k)

Spec == Init /\ [][Next]_vars

\* =================================================================== claims
Ids(seq) == {seq[i] : i \in 1..Len(seq)}
LastUD == user_data[UserOf(lastOp.key)]
FinalNotices == {"success", "failed", "unexpected_error", "cancelled", "nodata"}
ManualDraft(d) ==
    /\ DOMAIN d = {"date", "time", "location", "booker_name"}
    /\ StrptimeYmd(d["date"]) /\ TimePatternMatch(d["time"])
    /\ d["location"] # None /\ d["booker_name"] # None

\* C1: in the full variant, every transition that ends the conversation with a
\* final notice (confirm with a link, with null, with an exception, with a
\* missing draft; the cancel button; /cancel) has issued a delete request for
\* every id messages_to_delete held at that moment.
C1_CleanupAtEveryTerminal ==
    (/\ variant = "full"
     /\ lastOp.handler \in {"confirm_event", "cancel_event"}
     /\ lastOp.notice \in FinalNotices)
    => Ids(lastOp.mtdAt) \subseteq Ids(lastOp.delReq)

\* C2: a confirm press whose calendar call returned null or raised sends a
\* generic failure notice, leaves the user's session data empty and ends the
\* conversation, and no exception leaves the handler.
C2_AdapterFailureEndsCleanly ==
    (lastOp.handler = "confirm_event" /\ lastOp.cal \in {"null", "raise"})
    => /\ lastOp.result = "ok"
       /\ lastOp.notice \in {"failed", "unexpected_error"}
       /\ Falsy(LastUD)
       /\ conv[lastOp.key] = END
C2_Witness ==
    /\ lastOp.handler = "confirm_event"
    /\ lastOp.from = CONFIRM_DETAILS
    /\ lastOp.cal = "raise"
    /\ ManualDraft(lastOp.draft)
    /\ Len(lastOp.mtdAt) > 0

\* C3: on the manual path of the full variant, a confirm press makes the
\* calendar call with the draft's fields and the description, and when the
\* calendar service makes the event the final message is the success notice
\* and the session is cleared.
C3_ManualConfirmSucceeds ==
    (/\ variant = "full"
     /\ lastOp.handler = "confirm_event"
     /\ lastOp.from = CONFIRM_DETAILS
     /\ ManualDraft(lastOp.draft)
     /\ lastOp.svc = "link")
    => /\ lastOp.cal = "link"
       /\ lastOp.notice = "success"
       /\ Falsy(LastUD)

\* C4: in the full variant, /cancel in any of the seven states and the cancel
\* button in CONFIRM_DETAILS end the conversation, send the cancellation
\* notice, clear the session and make no calendar call.
C4_CancelEndsWithNotice ==
    (/\ variant = "full"
     /\ lastOp.handler = "cancel_event"
     /\ lastOp.from \in FullStates)
    => /\ conv[lastOp.key] = END
       /\ lastOp.notice = "cancelled"
       /\ Falsy(LastUD)
       /\ lastOp.cal = "none"

\* C5: in the simpler variant, a /cancel command in AWAIT_DATE, AWAIT_TIME or
\* AWAIT_LOCATION ends the conversation, sends the cancellation notice and
\* clears the session.
C5_MainCancelCommand ==
    (/\ variant = "main"
     /\ lastOp.input = "cmd_cancel"
     /\ lastOp.from \in {AWAIT_DATE, AWAIT_TIME, AWAIT_LOCATION})
    => /\ lastOp.result = "ok"
       /\ conv[lastOp.key] = END
       /\ lastOp.notice = "cancelled"
       /\ Falsy(LastUD)

\* C6: in a non-terminal state no update is left without a handler: one that
\* matches no handler of the state is answered (and the conversation ended)
\* rather than dropped with the state unchanged.
C6_UnmatchedInputEnds ==
    \A k \in Keys : conv[k] # END => ~ENABLED Unhandled(k)

\* C7: the entry command received in a non-terminal state is handled by
\* create_command, which starts a new session.
C7_CreateRestarts ==
    \A k \in Keys :
        conv[k] # END => Dispatch(variant, conv[k], "cmd_create") = "create_command"

\* C8: in the full variant, messages_to_delete never holds
\* initial_message_id or quoted_image_id.
C8_TranscriptExcludesAnchors ==
    variant = "full" =>
        \A u \in Users :
            Has(user_data[u], "messages_to_delete") =>
                /\ user_data[u]["initial_message_id"] \notin Ids(Mtd(user_data[u]))
                /\ Has(user_data[u], "quoted_image_id") =>
                     user_data[u]["quoted_image_id"] \notin Ids(Mtd(user_data[u]))
\* a session that quotes an image and has recorded a photo sent directly
C8_Witness ==
    \E k \in Keys :
        /\ conv[k] # END
        /\ Has(UD(k), "quoted_image_id")
        /\ Ids(Mtd(UD(k))) \cap photos[ChatOf(k)] # {}

\* C9: no delete request is issued for a message that is, at that moment, the
\* trigger command or the quoted image of a conversation.
C9_NoAnchorDeleted == Ids(lastOp.delReq) \cap lastOp.anchors = {}

\* what a conversation holds: its state and the session data its handlers use
Session(k) == <<conv[k], user_data[UserOf(k)]>>

\* C10: a handler step of one conversation changes neither the state nor the
\* session data of another conversation that is under way.
C10_SessionsIsolated ==
    [][\A k \in Keys :
          (k # lastOp'.key /\ conv[k] # END) => Session(k)' = Session(k)]_vars

\* C11: a text that fails the format check in AWAIT_DATE (AWAIT_TIME) leaves
\* the conversation in that state and the draft as it was, and only the
\* re-prompt is sent.
C11_InvalidTextKeepsStateAndDraft ==
    [][(/\ lastOp'.input = "text"
        /\ \/ lastOp'.from = AWAIT_DATE /\ ~StrptimeYmd(typed')
           \/ lastOp'.from = AWAIT_TIME /\ ~TimePatternMatch(typed'))
       => /\ conv'[lastOp'.key] = lastOp'.from
          /\ Draft(user_data'[UserOf(lastOp'.key)]) = Draft(user_data[UserOf(lastOp'.key)])
          /\ lastOp'.notice = IF lastOp'.from = AWAIT_DATE
                              THEN "date_invalid" ELSE "time_invalid"]_vars

\* the manual path: what each state asks for, the state after it, and the
\* prompt that goes with an accepted input
ManualInputStates == {AWAIT_DATE, AWAIT_TIME, AWAIT_LOCATION, AWAIT_BOOKER_NAME}
ManualNext(s) ==
    CASE s = AWAIT_DATE -> AWAIT_TIME
      [] s = AWAIT_TIME -> AWAIT_LOCATION
      [] s = AWAIT_LOCATION -> AWAIT_BOOKER_NAME
      [] s = AWAIT_BOOKER_NAME -> CONFIRM_DETAILS
ManualField(s) ==
    CASE s = AWAIT_DATE -> "date"
      [] s = AWAIT_TIME -> "time"
      [] s = AWAIT_LOCATION -> "location"
      [] s = AWAIT_BOOKER_NAME -> "booker_name"
AcceptNotice(s) ==
    CASE s = AWAIT_DATE -> "time_prompt"
      [] s = AWAIT_TIME -> "location_prompt"
      [] s = AWAIT_LOCATION -> "booker_prompt"
      [] s = AWAIT_BOOKER_NAME -> "summary"
\* the step is a text the handler of a manual-path state accepted
AcceptedStep(op) ==
    /\ op.input = "text"
    /\ op.from \in ManualInputStates
    /\ op.notice = AcceptNotice(op.from)

\* C12: on the manual path of the full variant an accepted input is stored in
\* the draft and moves the conversation to the next state of AWAIT_DATE,
\* AWAIT_TIME, AWAIT_LOCATION, AWAIT_BOOKER_NAME, CONFIRM_DETAILS; a
\* conversation leaves a state of the path only to the next one (or ends),
\* and enters AWAIT_TIME, AWAIT_LOCATION, AWAIT_BOOKER_NAME only so.
C12_ManualPathInOrder ==
    [][variant = "full" =>
        /\ AcceptedStep(lastOp') =>
              LET u == UserOf(lastOp'.key)
                  f == ManualField(lastOp'.from)
              IN  /\ conv'[lastOp'.key] = ManualNext(lastOp'.from)
                  /\ Has(user_data'[u], "booking")
                  /\ Get(user_data'[u]["booking"], f) = typed'
                  /\ \A g \in {"date", "time", "location", "booker_name"} \ {f} :
                        /\ Has(Draft(user_data'[u]), g) = Has(Draft(user_data[u]), g)
                        /\ Get(Draft(user_data'[u]), g) = Get(Draft(user_data[u]), g)
        /\ \A k \in Keys :
              /\ (conv[k] \in ManualInputStates /\ conv'[k] # conv[k])
                    => conv'[k] \in {ManualNext(conv[k]), END}
              /\ (conv'[k] \in ManualInputStates \ {AWAIT_DATE} /\ conv'[k] # conv[k])
                    => /\ conv[k] \in ManualInputStates
                       /\ conv'[k] = ManualNext(conv[k])
                       /\ lastOp'.key = k /\ AcceptedStep(lastOp')]_vars
\* the manual path walked to its end: the summary of a draft of four typed fields
C12_Witness ==
    /\ variant = "full"
    /\ lastOp.handler = "get_booker_name"
    /\ lastOp.notice = "summary"
    /\ conv[lastOp.key] = CONFIRM_DETAILS
    /\ ManualDraft(Draft(LastUD))

\* the last update was a /create that quoted a photo: create_command went on
\* into process_photo and fetched the file
QuotingCreate ==
    /\ variant = "full"
    /\ lastOp.handler = "create_command"
    /\ lastOp.size > 0

\* C13: after a /create that quotes a photo, the quoted message's id is held
\* as quoted_image_id (and is not in the transcript), the conversation is not
\* in AWAIT_MODE, and when the extraction gave a result the draft is exactly
\* that result and the conversation went from no state straight to
\* CONFIRM_DETAILS.
C13_QuotedPhotoSkipsMenu ==
    QuotingCreate =>
        /\ lastOp.from = END
        /\ Has(LastUD, "quoted_image_id")
        /\ LastUD["quoted_image_id"] \in photos[ChatOf(lastOp.key)]
        /\ LastUD["quoted_image_id"] \in anchor[lastOp.key]
        /\ LastUD["quoted_image_id"] \notin Ids(Mtd(LastUD))
        /\ conv[lastOp.key] \in {AWAIT_IMAGE, CONFIRM_DETAILS}
        /\ (lastOp.extract.kind = "returned" /\ ~Falsy(lastOp.extract.value)) =>
              /\ conv[lastOp.key] = CONFIRM_DETAILS
              /\ lastOp.notice = "summary"
              /\ Has(LastUD, "booking")
              /\ LastUD["booking"] = lastOp.extract.value
        /\ ~(lastOp.extract.kind = "returned" /\ ~Falsy(lastOp.extract.value))
             => conv[lastOp.key] = AWAIT_IMAGE
\* the scenario of the spec: the extraction of a quoted photo gave the fields
C13_Witness ==
    /\ QuotingCreate
    /\ lastOp.extract.kind = "returned"
    /\ conv[lastOp.key] = CONFIRM_DETAILS
    /\ LastUD["booking"] = ExtractedScenario

\* a field the draft does not give: the key is missing, or its value is null
Absent(d, f) == Get(d, f) = None
BookingFields == {"date", "time", "location", "booker_name"}

\* C14: in the summary shown on entering CONFIRM_DETAILS, a location or a
\* booker name the draft does not give (key missing, or null) reads
\* "Not specified".
C14_AbsentShownNotSpecified ==
    (variant = "full" /\ lastOp.notice = "summary") =>
        \A f \in {"location", "booker_name"} :
            Absent(Draft(LastUD), f) => lastOp.summary[f] = NotSpecified

\* C15: an extraction result none of whose four fields is given (the empty
\* result, or one with all four null) is a failed extraction: the re-prompt
\* is sent, the conversation is in AWAIT_IMAGE and no draft is set.
C15_AllAbsentIsFailure ==
    (/\ variant = "full"
     /\ lastOp.extract.kind = "returned"
     /\ \A f \in BookingFields : Absent(lastOp.extract.value, f))
    => /\ conv[lastOp.key] = AWAIT_IMAGE
       /\ lastOp.notice = "extract_failed"
       /\ ~Has(LastUD, "booking")

C17_SizeLimit ==
    [][(variant = "full" /\ lastOp'.input = "photo" /\ lastOp'.sent > 0)
       => IF lastOp'.sent > 5 * 1024 * 1024
          THEN /\ conv'[lastOp'.key] = AWAIT_IMAGE
               /\ lastOp'.notice = "too_large"
               /\ lastOp'.extract = NotCalled
               /\ Draft(user_data'[UserOf(lastOp'.key)])
                    = Draft(user_data[UserOf(lastOp'.key)])
          ELSE lastOp'.extract # NotCalled]_vars

\* ------------------------------------------------ the format checks, probed
\* The handlers of AWAIT_DATE and AWAIT_TIME run on texts of many shapes.  A
\* behaviour starts in a conversation that waits for the date or the time
\* (the session the handlers before it leave behind) with the text its user
\* sends, and the handler of the state runs on it.
ProbeYears == {<<"2", "0", "2", "5">>,
               <<"2", "0", "2", "4">>}
ProbeMonths == {<<"0", "8">>,
                <<"8">>,
                <<"0", "2">>,
                <<"2">>,
                <<"1", "3">>,
                <<"0", "0">>}
ProbeDays == {<<"2", "0">>,
              <<"5">>,
              <<"0", "5">>,
              <<"2", "9">>,
              <<"3", "0">>,
              <<"3", "1">>,
              <<"0", "0">>,
              <<"3", "2">>,
              <<" ", "5">>}
Dash == <<"-">>
Colon == <<":">>
ProbeDates ==
    {y \o Dash \o m \o Dash \o d : y \in ProbeYears, m \in ProbeMonths, d \in ProbeDays}
    \cup {<<"2", "0", "-", "0", "8", "-", "2", "0", "2", "5">>,
          <<"2", "0", "2", "5", "/", "0", "8", "/", "2", "0">>,
          <<"2", "0", "2", "5", "-", "0", "8", "-", "2", "0", "\n">>,
          <<" ", "2", "0", "2", "5", "-", "0", "8", "-", "2", "0">>,
          <<"2", "0", "2", "5", "-", "0", "8">>,
          <<"2", "0", "2", "5", "0", "8", "2", "0">>}
ProbeHours == {<<"1", "9">>,
               <<"2", "1">>,
               <<"2", "5">>,
               <<"9">>,
               <<"0", "0">>,
               <<"2", "3">>,
               <<"2", "4">>}
ProbeMinutes == {<<"0", "0">>,
                 <<"5", "9">>,
                 <<"6", "0">>}
ProbeEnds == {<<"2", "1", ":", "0", "0">>,
              <<"1", "9", ":", "0", "0">>,
              <<"2", "6", ":", "0", "0">>,
              <<"1", "0", ":", "0", "0">>,
              <<"9", ":", "5", "9">>,
              <<"2", "3", ":", "5", "9">>}
ProbeTimes ==
    {h \o Colon \o m \o Dash \o e : h \in ProbeHours, m \in ProbeMinutes, e \in ProbeEnds}
    \cup {<<"1", "9", ":", "0", "0">>,
          <<"1", "9", ":", "0", "0", "-", "2", "1", ":", "0", "0", "\n">>,
          <<"1", "9", ":", "0", "0", " ", "-", " ", "2", "1", ":", "0", "0">>,
          <<"1", "9", ":", "0", "0", "-", "2", "1", ":", "0", "0", "-", "2", "3", ":", "0", "0">>,
          <<"1", "9", "0", "0", "-", "2", "1", "0", "0">>,
          <<"1", "9", ".", "0", "0", "-", "2", "1", ".", "0", "0">>}

\* what a user may send in AWAIT_LOCATION: a place, nothing but a space, a
\* text of another field, and a message whose text is empty
ProbeLocations == {LocationText,
                   <<" ">>,
                   DateText,
                   <<"C", "o", "u", "r", "t", " ", "3", "\n", "H", "a", "l", "l">>,
                   <<>>}
\* filters.TEXT: the message has a text, and the text is not empty
filters_TEXT(text) == text # None /\ text # <<>>

\* context.user_data when the conversation of MainKey waits in state st
SessionAt(v, st) ==
    LET created == CreateCommand(EmptyDict, IdBase(MainKey) + 1, NoReply,
                                 MAX_IMAGE_SIZE, NoExtraction).ud
        manual == StartManualInput(created, IdBase(MainKey) + 3).ud
        dated == GetDate(manual, IdBase(MainKey) + 4, DateText).ud
        timed == GetTime(dated, IdBase(MainKey) + 6, TimeText).ud
        located == GetLocation(timed, IdBase(MainKey) + 8, LocationText).ud
        named == GetBookerName(located, IdBase(MainKey) + 10, LocationText).ud
        mainCreated == MainCreateCommand(EmptyDict).ud
        mainDated == MainGetDate(mainCreated, DateText).ud
        mainTimed == MainGetTime(mainDated, TimeText).ud
        mainLocated == MainGetLocation(mainTimed, LocationText).ud
    IN  IF v = "full"
        THEN CASE st = AWAIT_MODE -> created
               [] st = AWAIT_DATE -> manual
               [] st = AWAIT_TIME -> dated
               [] st = AWAIT_LOCATION -> timed
               [] st = CONFIRM_DETAILS -> named
        ELSE CASE st = AWAIT_DATE -> mainCreated
               [] st = AWAIT_TIME -> mainDated
               [] st = AWAIT_LOCATION -> mainTimed
               [] st = CONFIRM_DETAILS -> mainLocated
\* the number of its next message: /create and the menu make two messages,
\* the date prompt one, each text and the prompt that answers it two
NextIdAt(v, st) ==
    IF v = "main" THEN 1
    ELSE CASE st = AWAIT_MODE -> 3
           [] st = AWAIT_DATE -> 4
           [] st = AWAIT_TIME -> 6
           [] st = AWAIT_LOCATION -> 8
           [] st = CONFIRM_DETAILS -> 12

TextInit ==
    \E v \in {"full", "main"}, st \in {AWAIT_DATE, AWAIT_TIME, AWAIT_LOCATION} :
        /\ variant = v
        /\ undeletable = {}
        /\ budget = IF v = "full" THEN Deep ELSE NoIds
        /\ conv = [k \in Keys |-> IF k = MainKey THEN st ELSE END]
        /\ user_data = [u \in Users |-> IF u = UserOf(MainKey)
                                        THEN SessionAt(v, st) ELSE EmptyDict]
        /\ nextId = [k \in Keys |-> IF k = MainKey THEN NextIdAt(v, st) ELSE 1]
        /\ photos = [c \in Chats |-> PostedIds(c)]
        /\ anchor = [k \in Keys |-> IF k = MainKey /\ v = "full"
                                    THEN {IdBase(MainKey) + 1} ELSE {}]
        /\ lastOp = NoOp
        /\ createCalls = [k \in Keys |-> 0]
        /\ tasks = <<>>
        /\ typed \in CASE st = AWAIT_DATE -> ProbeDates
                        [] st = AWAIT_TIME -> ProbeTimes
                        [] st = AWAIT_LOCATION -> ProbeLocations

\* the text at hand reaches the handler of the state, when the filter of its
\* MessageHandler accepts the message
typed_get_date(k) ==
    /\ variant = "full"
    /\ filters_TEXT(typed)
    /\ Handles(k, "text", "get_date")
    /\ Apply(k, "text", "get_date", GetDate(UD(k), Msg(k), typed), "none", {})
    /\ UNCHANGED <<photos, typed>>
typed_get_time(k) ==
    /\ variant = "full"
    /\ filters_TEXT(typed)
    /\ Handles(k, "text", "get_time")
    /\ Apply(k, "text", "get_time", GetTime(UD(k), Msg(k), typed), "none", {})
    /\ UNCHANGED <<photos, typed>>
typed_get_location(k) ==
    /\ variant = "full"
    /\ filters_TEXT(typed)
    /\ Handles(k, "text", "get_location")
    /\ Apply(k, "text", "get_location", GetLocation(UD(k), Msg(k), typed), "none", {})
    /\ UNCHANGED <<photos, typed>>
typed_main_get_date(k) ==
    /\ variant = "main"
    /\ filters_TEXT(typed)
    /\ Handles(k, "text", "get_date")
    /\ Apply(k, "text", "get_date", MainGetDate(UD(k), typed), "none", {})
    /\ UNCHANGED <<photos, typed>>
typed_main_get_time(k) ==
    /\ variant = "main"
    /\ filters_TEXT(typed)
    /\ Handles(k, "text", "get_time")
    /\ Apply(k, "text", "get_time", MainGetTime(UD(k), typed), "none", {})
    /\ UNCHANGED <<photos, typed>>
typed_main_get_location(k) ==
    /\ variant = "main"
    /\ filters_TEXT(typed)
    /\ Handles(k, "text", "get_location")
    /\ Apply(k, "text", "get_location", MainGetLocation(UD(k), typed), "none", {})
    /\ UNCHANGED <<photos, typed>>
\* the filter turns the message down; /cancel is no match either: no handler
\* runs, and the update is dropped
typed_unmatched(k) ==
    /\ conv[k] # END
    /\ ~filters_TEXT(typed)
    /\ lastOp' = [NoOp EXCEPT !.key = k, !.input = "text", !.from = conv[k]]
    /\ UNCHANGED <<variant, conv, user_data, nextId, photos, anchor, budget,
                   typed, undeletable, createCalls, tasks>>

TextNext ==
    \E k \in Keys :
        \/ typed_get_date(k)
        \/ typed_get_time(k)
        \/ typed_get_location(k)
        \/ typed_main_get_date(k)
        \/ typed_main_get_time(k)
        \/ typed_main_get_location(k)
        \/ typed_unmatched(k)

TextSpec == TextInit /\ [][TextNext]_vars

\* C18: the date check of AWAIT_DATE accepts a text exactly when it has the
\* literal shape YYYY-MM-DD (four digits, two digits, two digits) with a month
\* of 01..12 and a day that month has.
C18_DateAcceptedIffLiteralShape ==
    (lastOp.handler = "get_date" /\ lastOp.from = AWAIT_DATE) =>
        LET s == typed
            literal ==
                /\ Len(s) = 10
                /\ \A i \in {1, 2, 3, 4, 6, 7, 9, 10} : s[i] \in Digits
                /\ s[5] = "-" /\ s[8] = "-"
                /\ Num(Sub(s, 6, 7)) \in 1..12
                /\ Num(Sub(s, 9, 10)) \in 1..DaysIn(Year(s), Num(Sub(s, 6, 7)))
        IN  (lastOp.notice = "time_prompt") <=> literal

\* C19: the time-range check of AWAIT_TIME accepts a text exactly when it is
\* HH:MM-HH:MM with each HH in 00..23 and each MM in 00..59, whatever the
\* order of the two times.
C19_TimeAcceptedIffLiteralShape ==
    (lastOp.handler = "get_time" /\ lastOp.from = AWAIT_TIME) =>
        LET s == typed
            literal ==
                /\ Len(s) = 11
                /\ \A i \in {1, 2, 4, 5, 7, 8, 10, 11} : s[i] \in Digits
                /\ s[3] = ":" /\ s[6] = "-" /\ s[9] = ":"
                /\ Num(Sub(s, 1, 2)) \in 0..23 /\ Num(Sub(s, 7, 8)) \in 0..23
                /\ Num(Sub(s, 4, 5)) \in 0..59 /\ Num(Sub(s, 10, 11)) \in 0..59
        IN  (lastOp.notice = "location_prompt") <=> literal

\* --------------------------------------------------- the cleanup, probed
\* A conversation of the full variant at the menu, on the manual path or at
\* the summary, in a chat where the deletion of some of its messages fails
\* (the bot is no admin, a message is too old or already gone); then the
\* handlers that clean up run.
CleanupInit ==
    \E st \in {AWAIT_MODE, AWAIT_TIME, CONFIRM_DETAILS} :
        /\ variant = "full"
        /\ undeletable \in SUBSET {IdBase(MainKey) + n : n \in 2..NextIdAt("full", st)}
        /\ budget = [Deep EXCEPT ![MainKey] = NextIdAt("full", st)]
        /\ conv = [k \in Keys |-> IF k = MainKey THEN st ELSE END]
        /\ user_data = [u \in Users |-> IF u = UserOf(MainKey)
                                        THEN SessionAt("full", st) ELSE EmptyDict]
        /\ nextId = [k \in Keys |-> IF k = MainKey THEN NextIdAt("full", st) ELSE 1]
        /\ photos = [c \in Chats |-> PostedIds(c)]
        /\ anchor = [k \in Keys |-> IF k = MainKey THEN {IdBase(MainKey) + 1} ELSE {}]
        /\ lastOp = NoOp
        /\ typed = None
        /\ createCalls = [k \in Keys |-> 0]
        /\ tasks = <<>>

CleanupNext ==
    \E k \in Keys :
        \/ start_manual_input(k)
        \/ start_image_upload(k)
        \/ cancel_event(k)

CleanupSpec == CleanupInit /\ [][CleanupNext]_vars

\* C20: delete_messages asks for the deletion of every id of the list it is
\* given, in order, whichever of the deletions fail; it returns normally, and
\* the handler goes on to send its message.
C20_CleanupBestEffort ==
    [][(lastOp'.handler \in {"start_manual_input", "start_image_upload", "cancel_event"})
       => LET ud == user_data[UserOf(lastOp'.key)]
              given == IF lastOp'.input = "cmd_cancel"
                       THEN Append(Mtd(ud), Msg(lastOp'.key)) ELSE Mtd(ud)
          IN  /\ lastOp'.delReq = given
              /\ lastOp'.result = "ok"
              /\ lastOp'.notice \in {"date_prompt", "image_prompt", "cancelled"}]_vars
\* a cancellation whose cleanup met a failing deletion before its last id
C20_Witness ==
    /\ lastOp.handler = "cancel_event"
    /\ lastOp.notice = "cancelled"
    /\ \E i \in 1..(Len(lastOp.delReq) - 1) : lastOp.delReq[i] \in undeletable


\* C21: in the full variant, a handler that ends the conversation with a
\* final notice has, before it sends that notice, called delete_message for
\* every id messages_to_delete held: no final notice goes out while an id of
\* the transcript has not been attempted.
C21_CleanupBeforeFinalNotice ==
    (/\ variant = "full"
     /\ lastOp.handler \in {"confirm_event", "cancel_event"}
     /\ lastOp.notice \in FinalNotices)
    => \E i \in 1..Len(lastOp.calls) :
          /\ lastOp.calls[i].call = "send"
          /\ lastOp.calls[i].what = lastOp.notice
          /\ \A id \in Ids(lastOp.mtdAt) :
                \E j \in 1..(i - 1) :
                    lastOp.calls[j].call = "delete" /\ lastOp.calls[j].id = id

\* C22: create_calendar_event is called by a confirm press in CONFIRM_DETAILS
\* only, one call a press; once the call is made (whether it gave a link,
\* null or an exception) no exception leaves the handler and the conversation
\* has ended, and an ended conversation handles nothing but the entry
\* command: no further call is made before /create.
C22_NoRetryOfCalendarCall ==
    /\ lastOp.cal # "none" =>
          /\ lastOp.handler = "confirm_event"
          /\ lastOp.input = "cb_confirm"
          /\ lastOp.from = CONFIRM_DETAILS
          /\ lastOp.result = "ok"
          /\ conv[lastOp.key] = END
    /\ \A k \in Keys :
          conv[k] = END =>
              \A kind \in Kinds :
                  Dispatch(variant, conv[k], kind) \in {"none", "create_command"}
\* a failed call (null from the adapter) has ended the conversation
C22_Witness ==
    /\ lastOp.handler = "confirm_event"
    /\ lastOp.cal = "null"
    /\ conv[lastOp.key] = END
\* C23: whenever create_calendar_event is called, the date of the draft
\* passes the date check of AWAIT_DATE and its time range the check of
\* AWAIT_TIME, whether the draft was typed or extracted.
C23_CalendarCallHasValidatedFields ==
    lastOp.cal # "none" =>
        /\ StrptimeYmd(Get(lastOp.draft, "date"))
        /\ TimePatternMatch(Get(lastOp.draft, "time"))
\* the keys of the session that name the trigger messages
AnchorKeys == {"initial_message_id", "quoted_image_id"}
\* the part of a dict under some of its keys
Restrict(d, ks) == [x \in DOMAIN d \cap ks |-> d[x]]

\* C24: in AWAIT_MODE of the full variant, the 'manual' choice calls
\* delete_message for the ids of the transcript, leaves the id of the new date
\* prompt as the whole transcript and moves to AWAIT_DATE; the 'upload' choice
\* does so with the image prompt and AWAIT_IMAGE; the trigger messages and
\* the draft are as they were.
C24_ModeChoiceResetsTranscript ==
    [][(/\ variant = "full"
        /\ lastOp'.from = AWAIT_MODE
        /\ lastOp'.input \in {"cb_manual_input", "cb_upload_image"})
       => LET k == lastOp'.key
              ud == user_data[UserOf(k)]
              manual == lastOp'.input = "cb_manual_input"
          IN  /\ lastOp'.handler = IF manual THEN "start_manual_input"
                                   ELSE "start_image_upload"
              /\ Has(ud, "messages_to_delete")
              /\ lastOp'.delReq = Mtd(ud)
              /\ lastOp'.notice = IF manual THEN "date_prompt" ELSE "image_prompt"
              /\ Has(user_data'[UserOf(k)], "messages_to_delete")
              /\ Mtd(user_data'[UserOf(k)]) = <<Msg(k)>>
              /\ conv'[k] = IF manual THEN AWAIT_DATE ELSE AWAIT_IMAGE
              /\ Restrict(user_data'[UserOf(k)], AnchorKeys) = Restrict(ud, AnchorKeys)
              /\ anchor'[k] = anchor[k]
              /\ Has(user_data'[UserOf(k)], "booking") = Has(ud, "booking")
              /\ Draft(user_data'[UserOf(k)]) = Draft(ud)]_vars
\* C25: a text message in AWAIT_LOCATION, whatever its text (the empty one
\* too), has its text stored as the location of the draft and moves the
\* conversation to AWAIT_BOOKER_NAME (main.py: to CONFIRM_DETAILS); none
\* leaves it in AWAIT_LOCATION.
C25_LocationStoredVerbatim ==
    (lastOp.input = "text" /\ lastOp.from = AWAIT_LOCATION) =>
        /\ conv[lastOp.key] = IF variant = "full" THEN AWAIT_BOOKER_NAME
                               ELSE CONFIRM_DETAILS
        /\ Has(LastUD, "booking")
        /\ Get(LastUD["booking"], "location") = typed
\* C26: the draft holds what the states passed have asked for: in AWAIT_TIME
\* a date that passes the date check, in AWAIT_LOCATION also a time range
\* that passes the time check, in AWAIT_BOOKER_NAME also a location, and in
\* CONFIRM_DETAILS a draft that is not empty; the no-data branch of
\* confirm_event is never taken.
C26_DraftReflectsStatesPassed ==
    /\ \A k \in Keys :
          LET d == Draft(UD(k))
          IN  /\ conv[k] \in {AWAIT_TIME, AWAIT_LOCATION, AWAIT_BOOKER_NAME}
                    => StrptimeYmd(Get(d, "date"))
              /\ conv[k] \in {AWAIT_LOCATION, AWAIT_BOOKER_NAME}
                    => TimePatternMatch(Get(d, "time"))
              /\ conv[k] = AWAIT_BOOKER_NAME => Get(d, "location") # None
              /\ conv[k] = CONFIRM_DETAILS => ~Falsy(d)
    /\ lastOp.notice # "nodata"
\* the ids messages_to_delete holds, none when the session has no such list
Transcript(ud) == IF Has(ud, "messages_to_delete") THEN Ids(Mtd(ud)) ELSE {}

\* C27: in the full variant, after every step of a handler, each id that was
\* in messages_to_delete before the step, the id of the user's message the
\* handler processed (a text, a photo sent directly, /cancel) and the id of
\* the message the bot sent (unless it is the final notice) is either in
\* messages_to_delete or has been passed to delete_message in the step.
C27_TransientMessagesTracked ==
    [][(variant = "full" /\ lastOp'.key \in Keys) =>
        LET k == lastOp'.key
            fromUser == IF \/ lastOp'.input \in {"text", "cmd_cancel"}
                           \/ lastOp'.input = "photo" /\ lastOp'.looked = "own"
                        THEN {Msg(k)} ELSE {}
            fromBot == IF lastOp'.notice \in FinalNotices \cup {"none"} THEN {}
                       ELSE {IdBase(k) + nextId'[k] - 1}
        IN  Transcript(UD(k)) \cup fromUser \cup fromBot
              \subseteq Transcript(user_data'[UserOf(k)]) \cup Ids(lastOp'.delReq)]_vars
\* C29: in the full variant a conversation in AWAIT_MODE, AWAIT_IMAGE or
\* AWAIT_DATE (nothing accepted yet) has no booking data in its session:
\* none is left from an earlier conversation.
C29_FreshConversationHasNoDraft ==
    variant = "full" =>
        \A k \in Keys :
            conv[k] \in {AWAIT_MODE, AWAIT_IMAGE, AWAIT_DATE} => ~Has(UD(k), "booking")

\* C30: in AWAIT_IMAGE of the full variant, the photo of the message received
\* is the one whose file is fetched, measured and passed to the extraction
\* adapter, and the message is recorded in messages_to_delete, also when it
\* was sent as a reply to another message.
C30_ReceivedPhotoIsProcessed ==
    [][(/\ variant = "full"
        /\ lastOp'.key \in Keys
        /\ lastOp'.input = "photo"
        /\ lastOp'.from = AWAIT_IMAGE
        /\ lastOp'.sent > 0)
       => /\ lastOp'.looked = "own"
          /\ lastOp'.size = lastOp'.sent
          /\ Msg(lastOp'.key) \in Transcript(user_data'[UserOf(lastOp'.key)])]_vars
\* ------------------------------------------- confirm presses, concurrently
\* telegram_webhook awaits process_update(update) in the task of the request
\* that brought the update: two requests under way are two coroutines, each
\* running until its next await, in any order.  A conversation shows its
\* summary (CONFIRM_DETAILS) and the user presses 'Confirm' several times.
MaxPresses == 3
Presses == 1..MaxPresses
\* a press not yet delivered
Idle == [pc |-> "idle", res |-> "none"]

RaceInit ==
    \E v \in {"full", "main"} :
        /\ variant = v
        /\ undeletable = {}
        /\ budget = IF v = "full" THEN Deep ELSE NoIds
        /\ conv = [k \in Keys |-> IF k = MainKey THEN CONFIRM_DETAILS ELSE END]
        /\ user_data = [u \in Users |-> IF u = UserOf(MainKey)
                                        THEN SessionAt(v, CONFIRM_DETAILS)
                                        ELSE EmptyDict]
        /\ nextId = [k \in Keys |-> IF k = MainKey
                                     THEN NextIdAt(v, CONFIRM_DETAILS) ELSE 1]
        /\ photos = [c \in Chats |-> PostedIds(c)]
        /\ anchor = [k \in Keys |-> IF k = MainKey /\ v = "full"
                                    THEN {IdBase(MainKey) + 1} ELSE {}]
        /\ lastOp = NoOp
        /\ typed = None
        /\ createCalls = [k \in Keys |-> 0]
        /\ tasks = [p \in Presses |-> Idle]

\* process_update for press p: check_update looks up the state of the
\* conversation; when confirm_event is the handler it runs up to
\* `await query.answer()` (bot_handlers.py: unless its guard returns END)
confirm_received(p) ==
    /\ tasks[p].pc = "idle"
    /\ IF Dispatch(variant, conv[MainKey], "cb_confirm") # "confirm_event"
       THEN /\ tasks' = [tasks EXCEPT ![p].pc = "dropped"]
            /\ UNCHANGED conv
       ELSE IF variant = "full" /\ Falsy(UD(MainKey))
       THEN /\ tasks' = [tasks EXCEPT ![p].pc = "done"]
            /\ conv' = [conv EXCEPT ![MainKey] = END]
       ELSE /\ tasks' = [tasks EXCEPT ![p].pc = "answer"]
            /\ UNCHANGED conv
    /\ UNCHANGED <<variant, user_data, nextId, photos, anchor, lastOp, budget,
                   typed, undeletable, createCalls>>

\* the coroutine of press p goes on after query.answer(): it reads the draft
\* and, when there is one, calls create_calendar_event (a plain call, no
\* await); then it awaits the sending of its notice (bot_handlers.py: and of
\* the delete requests before it)
confirm_answered(p) ==
    /\ tasks[p].pc = "answer"
    /\ LET ud == UD(MainKey)
       IN  IF ~Has(ud, "booking") \/ Falsy(ud["booking"])
           THEN /\ tasks' = [tasks EXCEPT ![p] = [pc |-> "notify", res |-> "nodata"]]
                /\ UNCHANGED createCalls
           ELSE \E svc \in ServiceOutcomes :
                  /\ tasks' = [tasks EXCEPT ![p] =
                        [pc |-> "notify",
                         res |-> create_calendar_event(
                                    IF variant = "full" THEN ConfirmKwargs
                                    ELSE MainConfirmKwargs,
                                    Get(ud["booking"], "date"),
                                    Get(ud["booking"], "time"), svc)]]
                  /\ createCalls' = [createCalls EXCEPT ![MainKey] = @ + 1]
    /\ UNCHANGED <<variant, conv, user_data, nextId, photos, anchor, lastOp,
                   budget, typed, undeletable>>

\* the coroutine of press p goes on after its notice: context.user_data.clear()
\* (main.py's no-data branch returns without it), return END, and the
\* ConversationHandler drops the state of the conversation
confirm_notified(p) ==
    /\ tasks[p].pc = "notify"
    /\ user_data' = [user_data EXCEPT ![UserOf(MainKey)] =
                        IF variant = "main" /\ tasks[p].res = "nodata" THEN @
                        ELSE IF variant = "main" THEN MainConfirmClear(@)
                        ELSE ConfirmClear(@)]
    /\ conv' = [conv EXCEPT ![MainKey] = ConfirmReturn(tasks[p].res)]
    /\ tasks' = [tasks EXCEPT ![p].pc = "done"]
    /\ UNCHANGED <<variant, nextId, photos, anchor, lastOp, budget, typed,
                   undeletable, createCalls>>

RaceNext ==
    \E p \in Presses :
        \/ confirm_received(p)
        \/ confirm_answered(p)
        \/ confirm_notified(p)

RaceSpec == RaceInit /\ [][RaceNext]_vars

\* C28: for one conversation create_calendar_event is called at most once,
\* also when several confirm presses on its summary are in process_update at
\* the same time and their coroutines take turns at their awaits.
C28_OneCalendarCallPerConversation ==
    \A k \in Keys : createCalls[k] <= 1
=============================================================================
